---- MODULE Spec2Model ----
(***************************************************************************)
(* Model of src/app.py: GFS cycle discovery (get_available_cycle), the     *)
(* per-lead-hour fetcher (fetch_single_forecast), the GRIB decoder         *)
(* (parse_grib_data), the parallel assembler                               *)
(* (fetch_all_forecasts_parallel) and the script body that drives them.    *)
(*                                                                         *)
(* Time is counted in minutes since 00:00 UTC of day 0; a calendar date    *)
(* (date_str) is the day number t \div 1440.                               *)
(***************************************************************************)
EXTENDS Integers, Sequences, FiniteSets, TLC

\* ------------------------------------------------------------------ bounds
\* last calendar day from which "now" is drawn (day 0 is the first "yesterday")
MaxDay == 1
\* stop value of the range of lead hours (169 in the source, scaled down)
RangeStop == 7
\* number of script executions (Streamlit reruns) followed in one behaviour
MaxRuns == 2
\* size of the thread pool (max_workers=10 in the source, scaled down so that
\* the pool limit is reached with the scaled list of lead hours)
PoolSize == 2
\* build_subregion_params is examined on the coordinates within CoordSpan
\* twentieths of a degree of the ends and the middle of the ranges
CoordSpan == 6
\* largest margin handed to build_subregion_params, in twentieths of a degree
\* (the default 0.25 is 5)
MaxMargin == 6
\* largest number of records of a series on which the display columns are
\* examined
MaxSeries == 2

VARIABLES
    phase,        \* position of the script body / pipeline driver
    runs,         \* number of script executions started so far
    data_loaded,  \* 'data_loaded' in st.session_state
    now_utc,      \* get_available_cycle: now_utc
    days_ago,     \* get_available_cycle: outer loop variable
    cpos,         \* get_available_cycle: position in cycles of the inner loop
    status,       \* what the current call did with each candidate
    heads,        \* HEAD requests issued by the current run
    probe,        \* how the last requests.head of the current call ended
    found,        \* value returned by get_available_cycle
    futures,      \* per lead hour: state of its future and the row it holds
    gets,         \* GET (download) requests issued by the current run
    yielded,      \* lead-hour positions in the order as_completed yielded them
    completed,    \* fetch_all_forecasts_parallel: completed
    all_data,     \* fetch_all_forecasts_parallel: all_data
    successful,   \* script body: successful (-1 before the assembler returns)
    fetch_btn,    \* script body: fetch_btn, followed only under SpecTrigger
    fsf,          \* one call of fetch_single_forecast examined on its own
    pgd,          \* one call of parse_grib_data examined on its own
    sub,          \* one call of build_subregion_params examined on its own
    drv,          \* one computation of the display columns examined on its own
    rep           \* a second call of get_available_cycle at a later time

vars == <<phase, runs, data_loaded, now_utc, days_ago, cpos, status, heads, probe,
          found, futures, gets, yielded, completed, all_data, successful, fetch_btn,
          fsf, pgd, sub, drv, rep>>

\* the variables of the pipeline run by the script body
pipeVars == <<phase, runs, data_loaded, now_utc, days_ago, cpos, status, heads, probe,
              found, futures, gets, yielded, completed, all_data, successful, fetch_btn>>

\* the variables of the functions examined call by call
unitVars == <<fsf, pgd, sub, drv, rep>>

\* no call of the function is being examined
NoCall == [pc |-> "idle"]

UnitsIdle ==
    fsf = NoCall /\ pgd = NoCall /\ sub = NoCall /\ drv = NoCall /\ rep = NoCall

cycleVars == <<now_utc, days_ago, cpos, status, heads, probe, found>>
fetchVars == <<futures, gets, yielded, completed, all_data, successful>>

\* ------------------------------------------------------- get_available_cycle
\* variant: the synoptic hours listed oldest first
cycles_ascending == <<0, 6, 12, 18>>

cycles == <<18, 12, 6, 0>>

\* the lag below which a candidate is not probed, in hours
MinLagHours == 4

\* date_str = check_date.strftime("%Y%m%d"); check_date = now_utc - days_ago days
date_str(now, d) == (now - d * 1440) \div 1440

\* check_date.replace(hour=cycle, minute=0, second=0, microsecond=0)
cycle_time(now, d, cycle) == date_str(now, d) * 1440 + cycle * 60

IsFuture(now, d, cycle) == cycle_time(now, d, cycle) > now

\* variant: no publication lag is required
IsTooYoung_nolag(now, d, cycle) == FALSE

\* hours_since_cycle < 4, with hours_since_cycle = seconds / 3600
IsTooYoung(now, d, cycle) == (now - cycle_time(now, d, cycle)) < MinLagHours * 60

Candidates == {<<d, c>> : d \in 0..1, c \in 1..4}

\* position of a candidate in the order of the two nested loops
Rank(cand) == cand[1] * 4 + cand[2]

NotFound == [date_str |-> -1, cycle |-> -1, cycle_time |-> -1]

HeadAtmos(now, d, cycle) ==
    [endpoint |-> "atmos", date_str |-> date_str(now, d), cycle |-> cycle, fhour |-> 0]

InLoop == phase = "Discovering" /\ days_ago < 2

\* variant: the loop does not move to the next candidate
Advance_stuck == UNCHANGED <<cpos, days_ago>>

Advance ==
    IF cpos < 4 THEN /\ cpos' = cpos + 1
                     /\ days_ago' = days_ago
                ELSE /\ cpos' = 1
                     /\ days_ago' = days_ago + 1

\* if cycle_time > now_utc: continue
SkipFuture ==
    /\ InLoop
    /\ IsFuture(now_utc, days_ago, cycles[cpos])
    /\ status' = [status EXCEPT ![<<days_ago, cpos>>] = "future"]
    /\ Advance
    /\ UNCHANGED <<phase, runs, fetch_btn, data_loaded, now_utc, heads, probe, found>>
    /\ UNCHANGED fetchVars
    /\ UNCHANGED unitVars

\* if hours_since_cycle < 4: continue
SkipYoung ==
    /\ InLoop
    /\ ~IsFuture(now_utc, days_ago, cycles[cpos])
    /\ IsTooYoung(now_utc, days_ago, cycles[cpos])
    /\ status' = [status EXCEPT ![<<days_ago, cpos>>] = "young"]
    /\ Advance
    /\ UNCHANGED <<phase, runs, fetch_btn, data_loaded, now_utc, heads, probe, found>>
    /\ UNCHANGED fetchVars
    /\ UNCHANGED unitVars

Eligible(now, d, cycle) == ~IsFuture(now, d, cycle) /\ ~IsTooYoung(now, d, cycle)

\* requests.head answers 200: return date_str, cycle, cycle_time
ProbeOK ==
    /\ InLoop
    /\ Eligible(now_utc, days_ago, cycles[cpos])
    /\ heads' = heads \cup {HeadAtmos(now_utc, days_ago, cycles[cpos])}
    /\ status' = [status EXCEPT ![<<days_ago, cpos>>] = "ok"]
    /\ found' = [date_str   |-> date_str(now_utc, days_ago),
                 cycle      |-> cycles[cpos],
                 cycle_time |-> cycle_time(now_utc, days_ago, cycles[cpos])]
    /\ probe' = "200"
    /\ phase' = "Discovered"
    /\ UNCHANGED <<runs, fetch_btn, data_loaded, now_utc, days_ago, cpos>>
    /\ UNCHANGED fetchVars
    /\ UNCHANGED unitVars

\* requests.head answers with a status other than 200: falls out of the try
ProbeNon200 ==
    /\ InLoop
    /\ Eligible(now_utc, days_ago, cycles[cpos])
    /\ heads' = heads \cup {HeadAtmos(now_utc, days_ago, cycles[cpos])}
    /\ status' = [status EXCEPT ![<<days_ago, cpos>>] = "unavailable"]
    /\ probe' = "non200"
    /\ Advance
    /\ UNCHANGED <<phase, runs, fetch_btn, data_loaded, now_utc, found>>
    /\ UNCHANGED fetchVars
    /\ UNCHANGED unitVars

\* variant: a raising probe ends the search
ProbeException_fatal ==
    /\ InLoop
    /\ Eligible(now_utc, days_ago, cycles[cpos])
    /\ heads' = heads \cup {HeadAtmos(now_utc, days_ago, cycles[cpos])}
    /\ status' = [status EXCEPT ![<<days_ago, cpos>>] = "unavailable"]
    /\ probe' = "raised"
    /\ found' = NotFound
    /\ phase' = "Discovered"
    /\ UNCHANGED <<runs, fetch_btn, data_loaded, now_utc, days_ago, cpos>>
    /\ UNCHANGED fetchVars
    /\ UNCHANGED unitVars

\* requests.head raises (timeout, connection error): except: continue
ProbeException ==
    /\ InLoop
    /\ Eligible(now_utc, days_ago, cycles[cpos])
    /\ heads' = heads \cup {HeadAtmos(now_utc, days_ago, cycles[cpos])}
    /\ status' = [status EXCEPT ![<<days_ago, cpos>>] = "unavailable"]
    /\ probe' = "raised"
    /\ Advance
    /\ UNCHANGED <<phase, runs, fetch_btn, data_loaded, now_utc, found>>
    /\ UNCHANGED fetchVars
    /\ UNCHANGED unitVars

\* variant: only today's candidates are tried
ReturnNotFound_today ==
    /\ phase = "Discovering"
    /\ days_ago >= 1
    /\ found' = NotFound
    /\ phase' = "Discovered"
    /\ UNCHANGED <<runs, fetch_btn, data_loaded, now_utc, days_ago, cpos, status, heads, probe>>
    /\ UNCHANGED fetchVars
    /\ UNCHANGED unitVars

\* both loops exhausted: return None, None, None
ReturnNotFound ==
    /\ phase = "Discovering"
    /\ days_ago = 2
    /\ found' = NotFound
    /\ phase' = "Discovered"
    /\ UNCHANGED <<runs, fetch_btn, data_loaded, now_utc, days_ago, cpos, status, heads, probe>>
    /\ UNCHANGED fetchVars
    /\ UNCHANGED unitVars

\* ------------------------------------------------------------ parse_grib_data
\* var_mapping: cfgrib short name -> canonical field name
MappingPairs ==
    { <<"prmsl", "pressure">>, <<"gust", "gust">>,
      <<"wind", "wind_speed">>, <<"ws", "wind_speed">>, <<"wdir", "wind_dir">>,
      <<"u", "wind_u">>, <<"v", "wind_v">>, <<"u10", "wind_u">>, <<"v10", "wind_v">>,
      <<"10u", "wind_u">>, <<"10v", "wind_v">>,
      <<"htsgw", "wave_height">>, <<"swh", "wave_height">>, <<"hs", "wave_height">>,
      <<"hmax", "wave_height">>, <<"shww", "wave_height">>, <<"wvhgt", "wave_height">>,
      <<"dirpw", "wave_dir">>, <<"mwd", "wave_dir">>, <<"mdww", "wave_dir">>,
      <<"wvdir", "wave_dir">>,
      <<"perpw", "wave_period">>, <<"mwp", "wave_period">>, <<"mpww", "wave_period">>,
      <<"wvper", "wave_period">>,
      <<"swell", "swell_height">>, <<"shts", "swell_height">>,
      <<"swdir", "swell_dir">>, <<"mdts", "swell_dir">>,
      <<"swper", "swell_period">>, <<"mpts", "swell_period">> }

var_mapping ==
    [k \in {p[1] : p \in MappingPairs} |-> (CHOOSE p \in MappingPairs : p[1] = k)[2]]

\* the canonical field vocabulary (the values of var_mapping)
CanonicalFields == {p[2] : p \in MappingPairs}

\* var.lower() on the variable names that occur in the modelled archives
Lower(var) ==
    CASE var = "GUST"  -> "gust"
      [] var = "PRMSL" -> "prmsl"
      [] var = "HTSGW" -> "htsgw"
      [] var = "Unknown" -> "unknown"
      [] OTHER -> var

\* a dict with no key
EmptyDict == [k \in {} |-> 0]

\* dict[key] = value
DictSet(d, key, value) ==
    [k \in DOMAIN d \cup {key} |-> IF k = key THEN value ELSE d[k]]

\* dict.update(other)
DictUpdate(d, other) ==
    [k \in DOMAIN d \cup DOMAIN other |-> IF k \in DOMAIN other THEN other[k] ELSE d[k]]

\* A decoded variable value: float(point[var].values) gives a number ("num"),
\* not-a-number ("nan"), or raises ("err").
Num(v) == [kind |-> "num", v |-> v]
NaN == [kind |-> "nan", v |-> 0]
Err == [kind |-> "err", v |-> 0]

\* one pass of "for var in ds.data_vars" from position k on
RECURSIVE ScanVars(_, _, _)
ScanVars(data_vars, k, result) ==
    IF k > Len(data_vars) THEN result
    ELSE
      LET var       == data_vars[k].name
          var_lower == Lower(var)
          r1 == IF var_lower \notin DOMAIN var_mapping
                THEN DictSet(result, "unknown_vars",
                             Append(IF "unknown_vars" \in DOMAIN result
                                    THEN result["unknown_vars"] ELSE <<>>, var))
                ELSE result
          r2 == IF var_lower \in DOMAIN var_mapping
                THEN LET mapped_key == var_mapping[var_lower]
                     IN  IF mapped_key \in DOMAIN r1 THEN r1
                         ELSE IF data_vars[k].val.kind = "num"
                              THEN DictSet(r1, mapped_key, data_vars[k].val.v)
                              ELSE r1
                ELSE r1
      IN  ScanVars(data_vars, k + 1, r2)

\* "for filter_keys in filter_configs" from position g on; ds[g] is what
\* xr.open_dataset gives under the g-th filter
RECURSIVE ScanFilters(_, _, _)
ScanFilters(ds, g, result) ==
    IF g > Len(ds) THEN result
    ELSE IF ~ds[g].open   THEN ScanFilters(ds, g + 1, result)
    ELSE IF ~ds[g].coords THEN ScanFilters(ds, g + 1, result)
    ELSE IF ~ds[g].sel    THEN ScanFilters(ds, g + 1, result)
    ELSE ScanFilters(ds, g + 1, ScanVars(ds[g].data_vars, 1, result))

\* the value None for a payload
NoneBytes == [isnone |-> TRUE, len |-> 0, ds |-> <<>>]

parse_grib_data(grib_bytes) ==
    IF grib_bytes.isnone \/ grib_bytes.len < 100 THEN EmptyDict
    ELSE ScanFilters(grib_bytes.ds, 1, EmptyDict)

\* --------------------------------------------- fetch_gfs_atmosphere / gfswave
\* what requests.get gave: an exception, or a status and a body
RespException == [exc |-> TRUE, status_code |-> 0, content |-> NoneBytes]
Resp(code, body) == [exc |-> FALSE, status_code |-> code, content |-> body]

\* if resp.status_code == 200 and len(resp.content) > 100: return resp.content
fetch_body(resp) ==
    IF ~resp.exc /\ resp.status_code = 200 /\ resp.content.len > 100
    THEN resp.content ELSE NoneBytes

\* datasets as cfgrib opens them
Ds(vs)   == [open |-> TRUE, coords |-> TRUE, sel |-> TRUE, data_vars |-> vs]
DsFail   == [open |-> FALSE, coords |-> FALSE, sel |-> FALSE, data_vars |-> <<>>]
Var(n, v) == [name |-> n, val |-> v]
Bytes(n, ds) == [isnone |-> FALSE, len |-> n, ds |-> ds]

\* archive payloads used as inputs
AtmosGood ==
    Bytes(4000, << Ds(<<Var("gust", Num(12))>>),
                   Ds(<<Var("prmsl", Num(101325))>>),
                   DsFail,
                   Ds(<<Var("prmsl", Num(101300)), Var("gust", Num(12))>>) >>)
AtmosUnknownOnly ==
    Bytes(4000, << Ds(<<Var("unknown", Num(7))>>), DsFail, DsFail,
                   Ds(<<Var("unknown", Num(7))>>) >>)
Garbage == Bytes(4000, <<DsFail, DsFail, DsFail, DsFail>>)
TooShort == Bytes(60, <<DsFail, DsFail, DsFail, DsFail>>)
WaveGood ==
    Bytes(9000, << Ds(<<Var("ws", Num(8)), Var("wdir", Num(270)),
                        Var("swh", Num(2)), Var("perpw", NaN)>>),
                   DsFail,
                   Ds(<<Var("swell", Num(1)), Var("swdir", Num(200))>>),
                   Ds(<<Var("ws", Num(9))>>) >>)

AtmosResponses ==
    { RespException, Resp(404, Garbage), Resp(200, TooShort), Resp(200, Garbage),
      Resp(200, AtmosGood), Resp(200, AtmosUnknownOnly) }
WaveResponses ==
    { RespException, Resp(404, Garbage), Resp(200, TooShort), Resp(200, WaveGood) }

\* --------------------------------------------------------- get_forecast_hours
\* list(range(0, stop, 3))
Range3(stop) == [i \in 1..((stop + 2) \div 3) |-> 3 * (i - 1)]

\* hours = list(range(0, 169, 3)), with the stop value scaled to RangeStop
get_forecast_hours == Range3(RangeStop)

\* forecast_hours = get_forecast_hours(); total = len(forecast_hours)
forecast_hours == get_forecast_hours
total == Len(forecast_hours)
Leads == 1..total

\* ------------------------------------------------------ fetch_single_forecast
Get(endpoint, cyc, fhour) ==
    [endpoint |-> endpoint, date_str |-> cyc.date_str, cycle |-> cyc.cycle, fhour |-> fhour]

\* variant: the lead hour is added as minutes
BaseRow_minutes(cyc, fhour) ==
    DictSet(DictSet(EmptyDict, "valid_time", cyc.cycle_time + fhour), "fhour", fhour)

\* row = {'valid_time': cycle_time + timedelta(hours=fhour), 'fhour': fhour}
BaseRow(cyc, fhour) ==
    DictSet(DictSet(EmptyDict, "valid_time", cyc.cycle_time + 60 * fhour), "fhour", fhour)

Pending == [state |-> "pending", atmos_parsed |-> EmptyDict, row |-> EmptyDict]

Running == {i \in Leads : futures[i].state \in {"atmos", "wave"}}

\* variant: a thread is started for every queued call, whatever the number of
\* calls under way
WorkerStart_unbounded(i) ==
    /\ phase = "Fetching"
    /\ futures[i].state = "pending"
    /\ \A j \in Leads : j < i => futures[j].state # "pending"
    /\ futures' = [futures EXCEPT ![i] =
                     [state |-> "atmos", atmos_parsed |-> EmptyDict,
                      row |-> BaseRow(found, forecast_hours[i])]]
    /\ gets' = gets \cup {Get("atmos", found, forecast_hours[i])}
    /\ UNCHANGED <<phase, runs, fetch_btn, data_loaded, yielded, completed, all_data, successful>>
    /\ UNCHANGED cycleVars
    /\ UNCHANGED unitVars

\* a pool thread takes the next queued call and the call issues its first GET
WorkerStart(i) ==
    /\ phase = "Fetching"
    /\ futures[i].state = "pending"
    /\ \A j \in Leads : j < i => futures[j].state # "pending"
    /\ Cardinality(Running) < PoolSize
    /\ futures' = [futures EXCEPT ![i] =
                     [state |-> "atmos", atmos_parsed |-> EmptyDict,
                      row |-> BaseRow(found, forecast_hours[i])]]
    /\ gets' = gets \cup {Get("atmos", found, forecast_hours[i])}
    /\ UNCHANGED <<phase, runs, fetch_btn, data_loaded, yielded, completed, all_data, successful>>
    /\ UNCHANGED cycleVars
    /\ UNCHANGED unitVars

\* fetch_gfs_atmosphere returns, its payload is decoded, the wave GET is issued
AtmosReturn(i) ==
    /\ phase = "Fetching"
    /\ futures[i].state = "atmos"
    /\ \E resp \in AtmosResponses :
         futures' = [futures EXCEPT ![i].state = "wave",
                                    ![i].atmos_parsed = parse_grib_data(fetch_body(resp))]
    /\ gets' = gets \cup {Get("wave", found, forecast_hours[i])}
    /\ UNCHANGED <<phase, runs, fetch_btn, data_loaded, yielded, completed, all_data, successful>>
    /\ UNCHANGED cycleVars
    /\ UNCHANGED unitVars

\* fetch_gfswave returns, its payload is decoded, the two field sets are merged
WaveReturn(i) ==
    /\ phase = "Fetching"
    /\ futures[i].state = "wave"
    /\ \E resp \in WaveResponses :
         LET wave_parsed == parse_grib_data(fetch_body(resp))
         IN  futures' = [futures EXCEPT ![i] =
                 [state |-> "finished", atmos_parsed |-> EmptyDict,
                  row |-> DictUpdate(DictUpdate(futures[i].row, futures[i].atmos_parsed),
                                     wave_parsed)]]
    /\ UNCHANGED <<phase, runs, fetch_btn, data_loaded, gets, yielded, completed, all_data, successful>>
    /\ UNCHANGED cycleVars
    /\ UNCHANGED unitVars

\* the call ends with an exception, which the future stores
WorkerRaise(i) ==
    /\ phase = "Fetching"
    /\ futures[i].state \in {"atmos", "wave"}
    /\ futures' = [futures EXCEPT ![i] =
                     [state |-> "raised", atmos_parsed |-> EmptyDict, row |-> EmptyDict]]
    /\ UNCHANGED <<phase, runs, fetch_btn, data_loaded, gets, yielded, completed, all_data, successful>>
    /\ UNCHANGED cycleVars
    /\ UNCHANGED unitVars

\* ----------------------------------------------- fetch_all_forecasts_parallel
\* all_data.sort(key=lambda x: x['fhour']): a stable sort
RECURSIVE InsertByFhour(_, _)
InsertByFhour(sorted, row) ==
    IF sorted = <<>> THEN <<row>>
    ELSE IF sorted[Len(sorted)]["fhour"] <= row["fhour"] THEN Append(sorted, row)
    ELSE Append(InsertByFhour(SubSeq(sorted, 1, Len(sorted) - 1), row), sorted[Len(sorted)])

\* variant: the series is returned in completion order
SortByFhour_skipped(rows) == rows

RECURSIVE SortByFhour(_)
SortByFhour(rows) ==
    IF rows = <<>> THEN <<>>
    ELSE InsertByFhour(SortByFhour(SubSeq(rows, 1, Len(rows) - 1)), rows[Len(rows)])

\* variant: a row needs two decoded keys
HasData_strict(row) == Cardinality(DOMAIN row) > 3

\* if len(row) > 2
HasData(row) == Cardinality(DOMAIN row) > 2

\* the futures the loop has been through
Collected == {yielded[k] : k \in 1..Len(yielded)}

\* variant: the counter follows the records kept
Collect_kept(i) ==
    /\ phase = "Fetching"
    /\ futures[i].state \in {"finished", "raised"}
    /\ i \notin Collected
    /\ yielded' = Append(yielded, i)
    /\ all_data' = IF futures[i].state = "finished" /\ HasData(futures[i].row)
                   THEN Append(all_data, futures[i].row)
                   ELSE all_data
    /\ completed' = Len(all_data')
    /\ UNCHANGED <<phase, runs, fetch_btn, data_loaded, futures, gets, successful>>
    /\ UNCHANGED cycleVars
    /\ UNCHANGED unitVars

\* one iteration of "for future in as_completed(futures)"
Collect(i) ==
    /\ phase = "Fetching"
    /\ futures[i].state \in {"finished", "raised"}
    /\ i \notin Collected
    /\ yielded' = Append(yielded, i)
    /\ completed' = completed + 1
    /\ all_data' = IF futures[i].state = "finished" /\ HasData(futures[i].row)
                   THEN Append(all_data, futures[i].row)
                   ELSE all_data
    /\ UNCHANGED <<phase, runs, fetch_btn, data_loaded, futures, gets, successful>>
    /\ UNCHANGED cycleVars
    /\ UNCHANGED unitVars

\* variant: the assembler returns as soon as one future was yielded
AssemblerReturn_early ==
    /\ phase = "Fetching"
    /\ yielded # <<>>
    /\ all_data' = SortByFhour(all_data)
    /\ successful' = Len(all_data)
    /\ phase' = IF Len(all_data) = 0 THEN "Error" ELSE "Done"
    /\ data_loaded' = (data_loaded \/ Len(all_data) # 0)
    /\ UNCHANGED <<runs, fetch_btn, futures, gets, yielded, completed>>
    /\ UNCHANGED cycleVars
    /\ UNCHANGED unitVars

\* the loop is over: sort, return all_data, len(all_data); the script body
\* then reports an error (zero records) or sets data_loaded
AssemblerReturn ==
    /\ phase = "Fetching"
    /\ Collected = Leads
    /\ all_data' = SortByFhour(all_data)
    /\ successful' = Len(all_data)
    /\ phase' = IF Len(all_data) = 0 THEN "Error" ELSE "Done"
    /\ data_loaded' = (data_loaded \/ Len(all_data) # 0)
    /\ UNCHANGED <<runs, fetch_btn, futures, gets, yielded, completed>>
    /\ UNCHANGED cycleVars
    /\ UNCHANGED unitVars

\* ---------------------------------------------------------------- script body
\* the moments at which a followed run of the script reads the clock
RunNows == {1440 * d + 210 : d \in {MaxDay}}

\* the moments from which a single call of get_available_cycle is examined
AllNows == {1440 * d + m : d \in 1..MaxDay, m \in 0..1439}

Unvisited == [c \in Candidates |-> "unvisited"]

Terminal == {"Done", "Failed", "Error"}

\* Streamlit executes the script from its first line, with fresh locals;
\* pressed tells whether this execution was caused by a press of the button.
\* if fetch_btn or 'data_loaded' in st.session_state: get_available_cycle()
ScriptBody(pressed) ==
    /\ phase \in Terminal \cup {"Idle"}
    /\ runs < MaxRuns
    /\ runs' = runs + 1
    /\ IF pressed \/ data_loaded
       THEN /\ phase' = "Discovering"
            /\ now_utc' \in RunNows
       ELSE /\ phase' = "Idle"
            /\ now_utc' = 0
    /\ days_ago' = 0
    /\ cpos' = 1
    /\ status' = Unvisited
    /\ heads' = {}
    /\ probe' = "none"
    /\ found' = NotFound
    /\ futures' = [i \in Leads |-> Pending]
    /\ gets' = {}
    /\ yielded' = <<>>
    /\ completed' = 0
    /\ all_data' = <<>>
    /\ successful' = -1
    /\ UNCHANGED data_loaded
    /\ UNCHANGED unitVars

\* an execution of the script whose button value is an input only
ScriptRun(pressed) ==
    /\ ScriptBody(pressed)
    /\ UNCHANGED fetch_btn

\* the same execution with fetch_btn = st.button(...) kept in the state
ScriptRunTraced(pressed) ==
    /\ ScriptBody(pressed)
    /\ fetch_btn' = pressed

\* variant: the assembler is called whatever discovery returned
AfterDiscovery_unchecked ==
    /\ phase = "Discovered"
    /\ phase' = "Fetching"
    /\ UNCHANGED <<runs, fetch_btn, data_loaded>>
    /\ UNCHANGED cycleVars
    /\ UNCHANGED fetchVars
    /\ UNCHANGED unitVars

\* if date_str is None: st.error(...) else: fetch_all_forecasts_parallel(...)
AfterDiscovery ==
    /\ phase = "Discovered"
    /\ phase' = IF found = NotFound THEN "Failed" ELSE "Fetching"
    /\ UNCHANGED <<runs, fetch_btn, data_loaded>>
    /\ UNCHANGED cycleVars
    /\ UNCHANGED fetchVars
    /\ UNCHANGED unitVars

\* ------------------------------------------------------------- specifications
Init ==
    /\ phase = "Idle"
    /\ runs = 0
    /\ data_loaded = FALSE
    /\ now_utc = 0
    /\ days_ago = 0
    /\ cpos = 1
    /\ status = Unvisited
    /\ heads = {}
    /\ probe = "none"
    /\ found = NotFound
    /\ futures = [i \in Leads |-> Pending]
    /\ gets = {}
    /\ yielded = <<>>
    /\ completed = 0
    /\ all_data = <<>>
    /\ successful = -1
    /\ fetch_btn = FALSE
    /\ UnitsIdle

Next ==
    \/ \E pressed \in BOOLEAN : ScriptRun(pressed)
    \/ SkipFuture
    \/ SkipYoung
    \/ ProbeOK
    \/ ProbeNon200
    \/ ProbeException
    \/ ReturnNotFound
    \/ AfterDiscovery
    \/ \E i \in Leads : WorkerStart(i)
    \/ \E i \in Leads : AtmosReturn(i)
    \/ \E i \in Leads : WaveReturn(i)
    \/ \E i \in Leads : WorkerRaise(i)
    \/ \E i \in Leads : Collect(i)
    \/ AssemblerReturn

Spec == Init /\ [][Next]_vars

\* a single call of get_available_cycle, for every reading of the clock
InitCycle ==
    /\ phase = "Discovering"
    /\ runs = 1
    /\ data_loaded = FALSE
    /\ now_utc \in AllNows
    /\ days_ago = 0
    /\ cpos = 1
    /\ status = Unvisited
    /\ heads = {}
    /\ probe = "none"
    /\ found = NotFound
    /\ futures = [i \in Leads |-> Pending]
    /\ gets = {}
    /\ yielded = <<>>
    /\ completed = 0
    /\ all_data = <<>>
    /\ successful = -1
    /\ fetch_btn = FALSE
    /\ UnitsIdle

NextCycle ==
    \/ SkipFuture
    \/ SkipYoung
    \/ ProbeOK
    \/ ProbeNon200
    \/ ProbeException
    \/ ReturnNotFound

SpecCycle == InitCycle /\ [][NextCycle]_vars

TypeOK ==
    /\ phase \in {"Idle", "Discovering", "Discovered", "Fetching", "Done", "Failed", "Error"}
    /\ runs \in 0..MaxRuns
    /\ data_loaded \in BOOLEAN
    /\ days_ago \in 0..2
    /\ cpos \in 1..4
    /\ completed \in 0..total

\* the pipeline variables before the script has run
PipeIdle ==
    /\ phase = "Idle"
    /\ runs = 0
    /\ data_loaded = FALSE
    /\ now_utc = 0
    /\ days_ago = 0
    /\ cpos = 1
    /\ status = Unvisited
    /\ heads = {}
    /\ probe = "none"
    /\ found = NotFound
    /\ futures = [i \in Leads |-> Pending]
    /\ gets = {}
    /\ yielded = <<>>
    /\ completed = 0
    /\ all_data = <<>>
    /\ successful = -1
    /\ fetch_btn = FALSE

\* ----------------------------------------- fetch_single_forecast, call by call
\* the (date_str, cycle, cycle_time) triples get_available_cycle can return
FsfCycles ==
    { [date_str |-> d, cycle |-> cycles[c], cycle_time |-> d * 1440 + cycles[c] * 60] :
          d \in 0..MaxDay, c \in 1..4 }

\* no response received yet
NoResp == [exc |-> FALSE, status_code |-> 0, content |-> NoneBytes]

\* the call is entered: row is built, fetch_gfs_atmosphere issues its GET
FsfStart ==
    /\ fsf.pc = "call"
    /\ fsf' = [fsf EXCEPT !.pc = "atmos",
                          !.row = BaseRow(fsf.cyc, fsf.fhour),
                          !.gets = {Get("atmos", fsf.cyc, fsf.fhour)}]
    /\ UNCHANGED <<pipeVars, pgd, sub, drv, rep>>

\* variant: an exception of requests.get leaves fetch_gfs_atmosphere
FsfAtmosReturn_uncaught ==
    /\ fsf.pc = "atmos"
    /\ \E resp \in AtmosResponses :
         fsf' = IF resp.exc
                THEN [fsf EXCEPT !.pc = "raised", !.atmos_resp = resp]
                ELSE [fsf EXCEPT !.pc = "wave",
                                 !.atmos_resp = resp,
                                 !.atmos_parsed = parse_grib_data(fetch_body(resp)),
                                 !.gets = @ \cup {Get("wave", fsf.cyc, fsf.fhour)}]
    /\ UNCHANGED <<pipeVars, pgd, sub, drv, rep>>

\* atmos_data = fetch_gfs_atmosphere(...); atmos_parsed = parse_grib_data(...);
\* then fetch_gfswave issues its GET
FsfAtmosReturn ==
    /\ fsf.pc = "atmos"
    /\ \E resp \in AtmosResponses :
         fsf' = [fsf EXCEPT !.pc = "wave",
                            !.atmos_resp = resp,
                            !.atmos_parsed = parse_grib_data(fetch_body(resp)),
                            !.gets = @ \cup {Get("wave", fsf.cyc, fsf.fhour)}]
    /\ UNCHANGED <<pipeVars, pgd, sub, drv, rep>>

\* wave_data = fetch_gfswave(...); wave_parsed = parse_grib_data(...);
\* row.update(atmos_parsed); row.update(wave_parsed); return row
FsfWaveReturn ==
    /\ fsf.pc = "wave"
    /\ \E resp \in WaveResponses :
         fsf' = [fsf EXCEPT !.pc = "returned",
                            !.wave_resp = resp,
                            !.row = DictUpdate(DictUpdate(fsf.row, fsf.atmos_parsed),
                                               parse_grib_data(fetch_body(resp)))]
    /\ UNCHANGED <<pipeVars, pgd, sub, drv, rep>>

InitFetch ==
    /\ PipeIdle
    /\ fsf \in { [pc |-> "call", cyc |-> c, fhour |-> forecast_hours[i],
                  row |-> EmptyDict, gets |-> {}, atmos_resp |-> NoResp,
                  wave_resp |-> NoResp, atmos_parsed |-> EmptyDict] :
                     c \in FsfCycles, i \in Leads }
    /\ pgd = NoCall
    /\ sub = NoCall
    /\ drv = NoCall
    /\ rep = NoCall

NextFetch ==
    \/ FsfStart
    \/ FsfAtmosReturn
    \/ FsfWaveReturn

SpecFetch == InitFetch /\ [][NextFetch]_vars

\* ----------------------------------------------- parse_grib_data, step by step
\* further payloads: the shortest accepted length, upper-case variable names
\* with a value that does not convert, a dataset without coordinates and one
\* on which the nearest-point selection raises
Boundary100 ==
    Bytes(100, << Ds(<<Var("gust", Num(5))>>), DsFail, DsFail, DsFail >>)
UpperCase ==
    Bytes(4000, << Ds(<<Var("GUST", Err), Var("PRMSL", Num(100900))>>),
                   DsFail,
                   Ds(<<Var("Unknown", Num(1)), Var("gust", Num(11))>>),
                   DsFail >>)
NoPoint ==
    Bytes(4000, << [open |-> TRUE, coords |-> FALSE, sel |-> FALSE,
                    data_vars |-> <<Var("gust", Num(3))>>],
                   [open |-> TRUE, coords |-> TRUE, sel |-> FALSE,
                    data_vars |-> <<Var("prmsl", Num(100000))>>],
                   Ds(<<Var("HTSGW", Num(4))>>),
                   DsFail >>)

\* several aliases of one canonical field in one dataset, the first of them
\* not a number, and another value for the field under a later filter
AliasOrder ==
    Bytes(4000, << Ds(<<Var("htsgw", NaN), Var("swh", Num(3)), Var("hs", Num(5))>>),
                   DsFail,
                   Ds(<<Var("perpw", Err), Var("mwp", NaN)>>),
                   Ds(<<Var("HTSGW", Num(6)), Var("mwp", Num(9)), Var("perpw", Num(7))>>) >>)

DecoderInputs ==
    { NoneBytes, TooShort, Boundary100, Garbage, AtmosGood, AtmosUnknownOnly,
      WaveGood, UpperCase, NoPoint, AliasOrder }

\* the name NamedTemporaryFile gives to the scratch file of the call
ScratchFile == "tmp.grib2"

\* if grib_bytes is None or len(grib_bytes) < 100: return {}
PgdGuard ==
    /\ pgd.pc = "call"
    /\ pgd' = IF pgd.grib_bytes.isnone \/ pgd.grib_bytes.len < 100
              THEN [pgd EXCEPT !.pc = "returned"]
              ELSE [pgd EXCEPT !.pc = "tmpfile"]
    /\ UNCHANGED <<pipeVars, fsf, sub, drv, rep>>

\* tempfile.NamedTemporaryFile(suffix='.grib2', delete=False) creates the file
PgdTempFile ==
    /\ pgd.pc = "tmpfile"
    /\ pgd' = [pgd EXCEPT !.pc = "write", !.files = @ \cup {ScratchFile}]
    /\ UNCHANGED <<pipeVars, fsf, sub, drv, rep>>

\* NamedTemporaryFile raises (no file is created): caught by "except Exception"
PgdTempFileFails ==
    /\ pgd.pc = "tmpfile"
    /\ pgd' = [pgd EXCEPT !.pc = "except", !.exc = TRUE]
    /\ UNCHANGED <<pipeVars, fsf, sub, drv, rep>>

\* f.write(grib_bytes); temp_path = f.name; the with block closes the file
PgdWrite ==
    /\ pgd.pc = "write"
    /\ pgd' = [pgd EXCEPT !.pc = "filters", !.temp_path = ScratchFile]
    /\ UNCHANGED <<pipeVars, fsf, sub, drv, rep>>

\* f.write raises: the with block closes the file, which delete=False keeps,
\* temp_path is not assigned and the inner try is never entered
PgdWriteFails ==
    /\ pgd.pc = "write"
    /\ pgd' = [pgd EXCEPT !.pc = "except", !.exc = TRUE]
    /\ UNCHANGED <<pipeVars, fsf, sub, drv, rep>>

\* variant: the fields of a dataset replace what earlier filters gave
PgdFilter_overwrite ==
    /\ pgd.pc = "filters"
    /\ pgd.g <= Len(pgd.grib_bytes.ds)
    /\ pgd' = [pgd EXCEPT !.g = @ + 1,
                          !.result = DictUpdate(pgd.result,
                                         ScanFilters(<<pgd.grib_bytes.ds[pgd.g]>>, 1, EmptyDict))]
    /\ UNCHANGED <<pipeVars, fsf, sub, drv, rep>>

\* one iteration of "for filter_keys in filter_configs"
PgdFilter ==
    /\ pgd.pc = "filters"
    /\ pgd.g <= Len(pgd.grib_bytes.ds)
    /\ pgd' = [pgd EXCEPT !.g = @ + 1,
                          !.result = ScanFilters(<<pgd.grib_bytes.ds[pgd.g]>>, 1, pgd.result)]
    /\ UNCHANGED <<pipeVars, fsf, sub, drv, rep>>

\* an exception in the body of the loop outside its inner try blocks, after k
\* variables of the dataset were scanned: control goes to the finally block
PgdFilterRaises ==
    /\ pgd.pc = "filters"
    /\ pgd.g <= Len(pgd.grib_bytes.ds)
    /\ LET d == pgd.grib_bytes.ds[pgd.g]
       IN  /\ d.open /\ d.coords /\ d.sel
           /\ \E k \in 0..Len(d.data_vars) :
                pgd' = [pgd EXCEPT !.pc = "finally", !.exc = TRUE,
                                   !.result = ScanVars(SubSeq(d.data_vars, 1, k), 1, pgd.result)]
    /\ UNCHANGED <<pipeVars, fsf, sub, drv, rep>>

\* the loop over filter_configs is over
PgdLoopEnd ==
    /\ pgd.pc = "filters"
    /\ pgd.g > Len(pgd.grib_bytes.ds)
    /\ pgd' = [pgd EXCEPT !.pc = "finally"]
    /\ UNCHANGED <<pipeVars, fsf, sub, drv, rep>>

\* finally: os.unlink(temp_path); a pending exception then goes on to the
\* outer handler
PgdFinally ==
    /\ pgd.pc = "finally"
    /\ pgd' = [pgd EXCEPT !.pc = IF pgd.exc THEN "except" ELSE "returned",
                          !.files = @ \ {pgd.temp_path}]
    /\ UNCHANGED <<pipeVars, fsf, sub, drv, rep>>

\* variant: the outer handler lets the exception go to the caller
PgdExcept_reraise ==
    /\ pgd.pc = "except"
    /\ pgd' = [pgd EXCEPT !.pc = "raised"]
    /\ UNCHANGED <<pipeVars, fsf, sub, drv, rep>>

\* except Exception as e: pass; return result
PgdExcept ==
    /\ pgd.pc = "except"
    /\ pgd' = [pgd EXCEPT !.pc = "returned", !.exc = FALSE]
    /\ UNCHANGED <<pipeVars, fsf, sub, drv, rep>>

InitParse ==
    /\ PipeIdle
    /\ pgd \in { [pc |-> "call", grib_bytes |-> b, g |-> 1, result |-> EmptyDict,
                  files |-> {}, temp_path |-> "unbound", exc |-> FALSE] :
                     b \in DecoderInputs }
    /\ fsf = NoCall
    /\ sub = NoCall
    /\ drv = NoCall
    /\ rep = NoCall

NextParse ==
    \/ PgdGuard
    \/ PgdTempFile
    \/ PgdTempFileFails
    \/ PgdWrite
    \/ PgdWriteFails
    \/ PgdFilter
    \/ PgdFilterRaises
    \/ PgdLoopEnd
    \/ PgdFinally
    \/ PgdExcept

SpecParse == InitParse /\ [][NextParse]_vars

\* ------------------------------------------------------ build_subregion_params
\* Coordinates and margins are counted in twentieths of a degree (0.05), so
\* that a quarter of a degree is 5 units; Deg(d) is d whole degrees.
Deg(d) == 20 * d

\* variant: round to the nearest integer instead of rounding down
floor_nearest(n, d) == (2 * n + d) \div (2 * d)

\* math.floor of the rational n / d, d > 0
floor(n, d) == n \div d

\* math.ceil of the rational n / d, d > 0
ceil(n, d) == -((-n) \div d)

\* the four numbers formatted into the query string
\* "subregion=&toplat=..&leftlon=..&rightlon=..&bottomlat=..": x * 4 is the
\* rational 4x / 20, and q / 4 degrees is 5q units
build_subregion_params(lat, lon, margin) ==
    LET lat_min == 5 * floor(4 * (lat - margin), 20)
        lat_max == 5 * ceil(4 * (lat + margin), 20)
        lon_min == 5 * floor(4 * (lon - margin), 20)
        lon_max == 5 * ceil(4 * (lon + margin), 20)
    IN  [toplat |-> lat_max, leftlon |-> lon_min, rightlon |-> lon_max, bottomlat |-> lat_min]

\* latitudes within CoordSpan units of the south pole, the equator and the
\* north pole
LatInputs ==
    {Deg(-90) + k : k \in 0..CoordSpan} \cup (-CoordSpan..CoordSpan)
        \cup {Deg(90) - k : k \in 0..CoordSpan}

\* longitudes of both conventions within CoordSpan units of -180, 0, 180, 360
LonInputs ==
    {Deg(-180) + k : k \in 0..CoordSpan} \cup (-CoordSpan..CoordSpan)
        \cup {Deg(180) + k : k \in -CoordSpan..CoordSpan}
        \cup {Deg(360) - k : k \in 0..CoordSpan}

Margins == 0..MaxMargin

\* not yet computed
NoBox == [toplat |-> 0, leftlon |-> 0, rightlon |-> 0, bottomlat |-> 0]

\* the call returns its query string
SubReturn ==
    /\ sub.pc = "call"
    /\ sub' = [sub EXCEPT !.pc = "returned",
                          !.out = build_subregion_params(sub.lat, sub.lon, sub.margin)]
    /\ UNCHANGED <<pipeVars, fsf, pgd, drv, rep>>

InitSub ==
    /\ PipeIdle
    /\ sub \in { [pc |-> "call", lat |-> la, lon |-> lo, margin |-> m, out |-> NoBox] :
                    la \in LatInputs, lo \in LonInputs, m \in Margins }
    /\ fsf = NoCall
    /\ pgd = NoCall
    /\ drv = NoCall
    /\ rep = NoCall

NextSub == SubReturn

SpecSub == InitSub /\ [][NextSub]_vars

\* -------------------------------------------------- derived display columns
\* A cell of the DataFrame: a number or NaN.  Derived numbers are rounded to
\* one decimal and kept as a count of tenths.
Cell(v) == [nan |-> FALSE, v |-> v]
NaNCell == [nan |-> TRUE, v |-> 0]

\* df.columns of pd.DataFrame(all_data): the union of the keys of the rows
Columns(rows) == UNION {DOMAIN rows[k] : k \in 1..Len(rows)}

\* variant: a key missing from a row is filled with zero
Col_fillzero(rows, name, k) ==
    IF name \in DOMAIN rows[k] THEN Cell(rows[k][name]) ELSE Cell(0)

\* df[name] at row k: a key missing from the row is NaN
Col(rows, name, k) ==
    IF name \in DOMAIN rows[k] THEN Cell(rows[k][name]) ELSE NaNCell

\* numpy rint of the rational n / d (d > 0): nearest integer, ties to even
rint(n, d) ==
    LET q == n \div d
        r == n % d
    IN  IF 2 * r < d THEN q
        ELSE IF 2 * r > d THEN q + 1
        ELSE IF q % 2 = 0 THEN q ELSE q + 1

\* np.sqrt on the sums of squares that occur (whole-number roots)
sqrt(n) == CHOOSE r \in 0..n : r * r = n

\* np.degrees(np.arctan2(u, v)) in tenths of a degree, on the component
\* pairs that occur in the modelled records
arctan2_deg(u, v) ==
    CASE u = 0 /\ v > 0 -> 0
      [] u > 0 /\ v = 0 -> 900
      [] u = 0 /\ v < 0 -> 1800
      [] u < 0 /\ v = 0 -> -900
      [] u = 3 /\ v = 4 -> 369
      [] OTHER -> 0

\* (x * MS_TO_KNOTS).round(1) with MS_TO_KNOTS = 1.94384, in tenths of a knot
Knots(c) == IF c.nan THEN NaNCell ELSE Cell(rint(c.v * 194384, 10000))

\* (x / 100).round(1), in tenths of a hectopascal
HectoPascal(c) == IF c.nan THEN NaNCell ELSE Cell(rint(c.v, 10))

\* x.round(1) and (x * 1.6).round(1), in tenths; a direction column holds the
\* decoded value itself, which is then formatted with one decimal
Round1(c) == IF c.nan THEN NaNCell ELSE Cell(10 * c.v)
Times16(c) == IF c.nan THEN NaNCell ELSE Cell(16 * c.v)

\* np.sqrt(u**2 + v**2): NaN when either operand is NaN
Magnitude(u, v) == IF u.nan \/ v.nan THEN NaNCell ELSE Cell(sqrt(u.v * u.v + v.v * v.v))

\* (np.degrees(np.arctan2(u, v)) + 180) % 360, in tenths of a degree
Bearing(u, v) ==
    IF u.nan \/ v.nan THEN NaNCell ELSE Cell((arctan2_deg(u.v, v.v) + 1800) % 3600)

\* f"{deg:.1f}° ..." if pd.notna(deg) else '-'
DirectionText(c) == [dash |-> c.nan, deg |-> IF c.nan THEN 0 ELSE c.v]

\* the columns computed for row k of df = pd.DataFrame(all_data); every "if
\* name in df.columns" looks at the columns of the whole frame
DerivedRow(rows, k) ==
    LET cols == Columns(rows)
        has(name) == name \in cols
        col(name) == Col(rows, name, k)
        opt(name, c) == IF has(name) THEN c ELSE NaNCell
        wind_deg ==
            IF has("wind_dir") THEN Round1(col("wind_dir"))
            ELSE IF has("wind_u") /\ has("wind_v")
                 THEN Bearing(col("wind_u"), col("wind_v"))
                 ELSE NaNCell
    IN  [ pressure_hpa |-> opt("pressure", HectoPascal(col("pressure"))),
          wind_speed_kts |->
              IF has("wind_speed") THEN Knots(col("wind_speed"))
              ELSE IF has("wind_u") /\ has("wind_v")
                   THEN Knots(Magnitude(col("wind_u"), col("wind_v")))
                   ELSE NaNCell,
          wind_deg |-> wind_deg,
          wind_direction |-> DirectionText(wind_deg),
          gust_kts |-> opt("gust", Knots(col("gust"))),
          waves_m |-> opt("wave_height", Round1(col("wave_height"))),
          max_waves_m |-> opt("wave_height", Times16(col("wave_height"))),
          wave_deg |-> opt("wave_dir", Round1(col("wave_dir"))),
          wave_direction |-> DirectionText(opt("wave_dir", Round1(col("wave_dir")))),
          wave_period_s |-> opt("wave_period", Round1(col("wave_period"))),
          swell_m |-> opt("swell_height", Round1(col("swell_height"))),
          swell_deg |-> opt("swell_dir", Round1(col("swell_dir"))),
          swell_direction |-> DirectionText(opt("swell_dir", Round1(col("swell_dir")))),
          swell_period_s |-> opt("swell_period", Round1(col("swell_period"))) ]

\* decoded field sets of the records on which the columns are examined
Fields(pairs) == [k \in {p[1] : p \in pairs} |-> (CHOOSE p \in pairs : p[1] = k)[2]]

SampleFields ==
    { parse_grib_data(AtmosGood),
      parse_grib_data(WaveGood),
      parse_grib_data(AtmosUnknownOnly),
      DictUpdate(parse_grib_data(AtmosGood), parse_grib_data(WaveGood)),
      Fields({<<"wind_u", 3>>, <<"wind_v", 4>>}),
      Fields({<<"wind_u", 3>>, <<"wind_v", 4>>, <<"wind_speed", 8>>, <<"wind_dir", 90>>}),
      Fields({<<"wind_u", 0>>, <<"gust", 7>>}),
      Fields({<<"pressure", 0>>, <<"wind_speed", 0>>, <<"gust", 0>>, <<"wave_height", 0>>,
              <<"wave_dir", 0>>, <<"wave_period", 0>>, <<"swell_height", 0>>,
              <<"swell_dir", 0>>, <<"swell_period", 0>>}),
      Fields({<<"wind_u", -5>>, <<"wind_v", 0>>, <<"wave_period", 9>>,
              <<"swell_period", 11>>, <<"wave_dir", 45>>}) }

\* the cycle of the examined series: day 0 at 00 UTC
SampleCycle == [date_str |-> 0, cycle |-> 0, cycle_time |-> 0]

\* the series the assembler can return: n records in lead-hour order, each
\* with valid_time, fhour and one of the decoded field sets
SeriesOf(n) ==
    { [k \in 1..n |-> DictUpdate(BaseRow(SampleCycle, 3 * (k - 1)), f[k])] :
          f \in [1..n -> SampleFields] }

\* df = pd.DataFrame(all_data) and the assignments of the display columns
Derive ==
    /\ drv.pc = "loaded"
    /\ drv' = [drv EXCEPT !.pc = "derived",
                          !.df = [k \in 1..Len(drv.all_data) |-> DerivedRow(drv.all_data, k)]]
    /\ UNCHANGED <<pipeVars, fsf, pgd, sub, rep>>

InitDerive ==
    /\ PipeIdle
    /\ drv \in { [pc |-> "loaded", all_data |-> s, df |-> <<>>] :
                    s \in UNION {SeriesOf(n) : n \in 1..MaxSeries} }
    /\ fsf = NoCall
    /\ pgd = NoCall
    /\ sub = NoCall
    /\ rep = NoCall

NextDerive == Derive

SpecDerive == InitDerive /\ [][NextDerive]_vars

\* ------------------------------------- get_available_cycle, called again later
\* the longest time between the two calls, in days
MaxWaitDays == 2

\* the moments of the first call: half an hour after 00Z, 06Z and 18Z, and one
\* minute before the 18Z cycle is four hours old
FirstNows == {1440 * MaxDay + m : m \in {30, 390, 1110, 1319}}

\* the time between the two calls, in minutes
Waits == {1, 239, 240} \cup {360 * k : k \in 1..(4 * MaxWaitDays)}

\* the run times of the candidates of a call at the moment now
CycleTimes(now) == {cycle_time(now, c[1], cycles[c[2]]) : c \in Candidates}

\* the run times the last call skipped with "if hours_since_cycle < 4: continue"
SkippedYoung == {cycle_time(now_utc, c[1], cycles[c[2]]) :
                    c \in {d \in Candidates : status[d] = "young"}}

\* The script is executed again at a later moment and calls get_available_cycle
\* with fresh locals. rep keeps what the first call skipped as too young and
\* the run times whose lead-hour-zero file the server has at the later moment.
Reprobe ==
    /\ rep.pc = "first"
    /\ phase = "Discovered"
    /\ \E w \in Waits :
         \E P \in SUBSET (CycleTimes(now_utc + w) \cup SkippedYoung) :
            /\ now_utc' = now_utc + w
            /\ rep' = [pc |-> "second", t |-> now_utc, young |-> SkippedYoung,
                       published |-> P]
    /\ phase' = "Discovering"
    /\ runs' = runs + 1
    /\ days_ago' = 0
    /\ cpos' = 1
    /\ status' = Unvisited
    /\ heads' = {}
    /\ probe' = "none"
    /\ found' = NotFound
    /\ UNCHANGED <<fetch_btn, data_loaded>>
    /\ UNCHANGED fetchVars
    /\ UNCHANGED <<fsf, pgd, sub, drv>>

\* the server has the file the current candidate's HEAD request names
Published ==
    rep.pc = "second" => cycle_time(now_utc, days_ago, cycles[cpos]) \in rep.published

Unpublished ==
    rep.pc = "second" => cycle_time(now_utc, days_ago, cycles[cpos]) \notin rep.published

\* requests.head answers 200 for a file the server has
RepProbeOK == rep.pc # "idle" /\ Published /\ ProbeOK

\* and another status, or raises, for a file it does not have
RepProbeNon200 == rep.pc # "idle" /\ Unpublished /\ ProbeNon200

RepProbeException == rep.pc # "idle" /\ Unpublished /\ ProbeException

InitReprobe ==
    /\ phase = "Discovering"
    /\ runs = 1
    /\ data_loaded = FALSE
    /\ now_utc \in FirstNows
    /\ days_ago = 0
    /\ cpos = 1
    /\ status = Unvisited
    /\ heads = {}
    /\ probe = "none"
    /\ found = NotFound
    /\ futures = [i \in Leads |-> Pending]
    /\ gets = {}
    /\ yielded = <<>>
    /\ completed = 0
    /\ all_data = <<>>
    /\ successful = -1
    /\ fetch_btn = FALSE
    /\ fsf = NoCall
    /\ pgd = NoCall
    /\ sub = NoCall
    /\ drv = NoCall
    /\ rep = [pc |-> "first"]

NextReprobe ==
    \/ SkipFuture
    \/ SkipYoung
    \/ RepProbeOK
    \/ RepProbeNon200
    \/ RepProbeException
    \/ ReturnNotFound
    \/ Reprobe

SpecReprobe == InitReprobe /\ [][NextReprobe]_vars

\* ===================================================================== claims
\* nominal run time named by a HEAD request
HeadTime(h) == h.date_str * 1440 + h.cycle * 60

CandTime(c) == cycle_time(now_utc, c[1], cycles[c[2]])
CandEligible(c) == Eligible(now_utc, c[1], cycles[c[2]])
CandHead(c) == HeadAtmos(now_utc, c[1], cycles[c[2]])

Returned == phase = "Discovered"

\* C1 (as claimed): a cycle is returned only if, during the call, the
\* lead-hour-zero file of that cycle was probed with success on both the
\* atmospheric and the wave endpoint.
C1_JointAvailability ==
    (Returned /\ found # NotFound) =>
        /\ \E h \in heads : /\ h.endpoint = "atmos"
                            /\ h.date_str = found.date_str
                            /\ h.cycle = found.cycle
        /\ \E h \in heads : /\ h.endpoint = "wave"
                            /\ h.date_str = found.date_str
                            /\ h.cycle = found.cycle

\* C2: the candidates are visited in strictly decreasing nominal run time, and
\* a returned cycle is preceded by a failed probe of every newer eligible one.
C2_RecencyOrder ==
    /\ \A c1, c2 \in Candidates : Rank(c1) < Rank(c2) => CandTime(c1) > CandTime(c2)
    /\ \A c1, c2 \in Candidates :
          (Rank(c1) < Rank(c2) /\ status[c2] # "unvisited") => status[c1] # "unvisited"
    /\ (Returned /\ found # NotFound) =>
          /\ \E c \in Candidates : /\ status[c] = "ok"
                                   /\ CandTime(c) = found.cycle_time
                                   /\ cycles[c[2]] = found.cycle
          /\ \A c \in Candidates :
                (CandEligible(c) /\ CandTime(c) > found.cycle_time) =>
                    (status[c] = "unavailable" /\ CandHead(c) \in heads)

\* an older cycle was returned after the probe of a newer eligible one failed
C2_Witness ==
    /\ Returned
    /\ found # NotFound
    /\ \E c \in Candidates : CandTime(c) > found.cycle_time /\ status[c] = "unavailable"

\* C3: no candidate whose run time is in the future or less than 4 hours
\* before now is probed or returned.
C3_MinimumLag ==
    /\ \A h \in heads : HeadTime(h) + 4 * 60 <= now_utc
    /\ found # NotFound => found.cycle_time + 4 * 60 <= now_utc
    /\ \A c \in Candidates :
          (status[c] # "unvisited" /\ CandTime(c) + 4 * 60 > now_utc) =>
              (status[c] \in {"future", "young"} /\ CandHead(c) \notin heads)

\* a candidate of the past was skipped as too young and an older one returned
C3_Witness ==
    /\ Returned
    /\ found # NotFound
    /\ \E c \in Candidates : status[c] = "young" /\ CandTime(c) <= now_utc

\* the step is a probe of the current candidate that did not answer 200
FailedProbeStep ==
    /\ InLoop
    /\ status[<<days_ago, cpos>>] = "unvisited"
    /\ status'[<<days_ago, cpos>>] = "unavailable"

\* C4: a probe that raises or answers a status other than 200 marks only its
\* own candidate, the search goes on with the next older candidate, and
\* NotFound is returned only when every eligible candidate was probed and failed.
C4_ProbeFailureContinues ==
    /\ [](  (Returned /\ found = NotFound) =>
               \A c \in Candidates :
                   CandEligible(c) => (status[c] = "unavailable" /\ CandHead(c) \in heads))
    /\ [][ FailedProbeStep =>
             /\ phase' = "Discovering"
             /\ found' = found
             /\ \A c \in Candidates : c # <<days_ago, cpos>> => status'[c] = status[c]
             /\ days_ago' * 4 + cpos' = days_ago * 4 + cpos + 1 ]_vars

\* NotFound was returned and the last probe had raised
C4_Witness ==
    /\ Returned
    /\ found = NotFound
    /\ probe = "raised"
    /\ \E c \in Candidates : status[c] = "unavailable"

\* C5: when every probe fails the call returns NotFound, after at most 8
\* probes, no candidate being probed twice, and every step of the loop moves
\* to the next candidate or returns.
C5_BoundedProbes ==
    /\ [](Cardinality(heads) <= 8)
    /\ []((Returned /\ \A c \in Candidates : status[c] # "ok") => found = NotFound)
    /\ [][ phase = "Discovering" =>
             /\ (heads' # heads =>
                    /\ Cardinality(heads') = Cardinality(heads) + 1
                    /\ status[<<days_ago, cpos>>] = "unvisited")
             /\ \/ phase' = "Discovered"
                \/ /\ phase' = "Discovering"
                   /\ days_ago' * 4 + cpos' = days_ago * 4 + cpos + 1 ]_vars

\* all eight candidates were eligible, were probed, and NotFound was returned
C5_Witness ==
    /\ Returned
    /\ found = NotFound
    /\ Cardinality(heads) = 8

\* ------------------------------------------------------------ pipeline claims
\* the steps of a run that the script, the pool threads and the network take
RunStep ==
    \/ SkipFuture
    \/ SkipYoung
    \/ ProbeOK
    \/ ProbeNon200
    \/ ProbeException
    \/ ReturnNotFound
    \/ AfterDiscovery
    \/ \E i \in Leads : WorkerStart(i)
    \/ \E i \in Leads : AtmosReturn(i)
    \/ \E i \in Leads : WaveReturn(i)
    \/ \E i \in Leads : Collect(i)
    \/ AssemblerReturn

\* every network call returns or times out, and threads keep being scheduled
FairSpec == Init /\ [][Next]_vars /\ WF_vars(RunStep)

\* the pipeline with the button value of each execution kept in fetch_btn
NextTrigger ==
    \/ \E pressed \in BOOLEAN : ScriptRunTraced(pressed)
    \/ SkipFuture
    \/ SkipYoung
    \/ ProbeOK
    \/ ProbeNon200
    \/ ProbeException
    \/ ReturnNotFound
    \/ AfterDiscovery
    \/ \E i \in Leads : WorkerStart(i)
    \/ \E i \in Leads : AtmosReturn(i)
    \/ \E i \in Leads : WaveReturn(i)
    \/ \E i \in Leads : WorkerRaise(i)
    \/ \E i \in Leads : Collect(i)
    \/ AssemblerReturn

SpecTrigger == Init /\ [][NextTrigger]_vars /\ WF_vars(RunStep)

AllFuturesDone == \A i \in Leads : futures[i].state \in {"finished", "raised"}

\* C6: a triggered run reaches Failed, Done or the zero-record error; Failed
\* exactly after NotFound and without any fetch, Done or the error only after
\* every dispatched fetch has completed (57 of them for the list of the source).
C6_RunTerminates ==
    /\ (phase \in {"Discovering", "Discovered", "Fetching"}) ~> (phase \in Terminal)
    /\ [](phase = "Failed" =>
            /\ found = NotFound
            /\ gets = {}
            /\ \A i \in Leads : futures[i].state = "pending")
    /\ [](phase \in {"Done", "Error"} =>
            /\ found # NotFound
            /\ AllFuturesDone
            /\ completed = total
            /\ (phase = "Error") = (successful = 0))
    /\ [][ (phase = "Fetching" /\ phase' # "Fetching") =>
              (AllFuturesDone /\ phase' \in {"Done", "Error"}) ]_vars
    /\ [][ (phase = "Discovered" /\ phase' # "Discovered") =>
              phase' = (IF found = NotFound THEN "Failed" ELSE "Fetching") ]_vars
    /\ Len(Range3(169)) = 57

\* a run ended in Done with every dispatched lead hour assembled
C6_Witness ==
    /\ phase = "Done"
    /\ completed = total
    /\ successful = total

\* C7: no download is issued before get_available_cycle has returned a cycle,
\* and none in a run whose discovery returned NotFound.
C7_DiscoveryBarrier ==
    /\ [](phase \in {"Idle", "Discovering", "Discovered", "Failed"} =>
            (gets = {} /\ \A i \in Leads : futures[i].state = "pending"))
    /\ [](found = NotFound => gets = {})
    /\ [][ (gets' # gets /\ gets' # {}) =>
              (phase = "Fetching" /\ found # NotFound /\ found' = found) ]_vars

\* a run whose discovery probed and returned NotFound ended without download
C7_Witness ==
    /\ phase = "Failed"
    /\ heads # {}
    /\ gets = {}

\* C8 (as claimed): every record of the series carries at least one canonical
\* field of the atmospheric or the wave family.
C8_MinimalFieldThreshold ==
    \A k \in 1..Len(all_data) : DOMAIN all_data[k] \cap CanonicalFields # {}

\* lead hours whose fetch gave a row with something beyond valid_time and fhour
Succeeded ==
    {i \in Leads : /\ futures[i].state = "finished"
                   /\ DOMAIN futures[i].row # {"valid_time", "fhour"}}

RECURSIVE RowsUpTo(_)
RowsUpTo(n) ==
    IF n = 0 THEN <<>>
    ELSE IF n \in Succeeded THEN Append(RowsUpTo(n - 1), futures[n].row)
    ELSE RowsUpTo(n - 1)

\* C10: whatever the order of completion, the returned series is the rows of
\* the succeeded lead hours in strictly increasing lead hour and valid time.
C10_DeterministicOrder ==
    phase \in {"Done", "Error"} =>
        /\ all_data = RowsUpTo(total)
        /\ \A k \in 1..(Len(all_data) - 1) :
              /\ all_data[k]["fhour"] < all_data[k + 1]["fhour"]
              /\ all_data[k]["valid_time"] < all_data[k + 1]["valid_time"]

\* two succeeded fetches completed in the reverse of their lead-hour order
C10_Witness ==
    /\ phase = "Done"
    /\ \E j, k \in 1..Len(yielded) :
          /\ j < k
          /\ yielded[j] > yielded[k]
          /\ {yielded[j], yielded[k]} \subseteq Succeeded

\* the family's download or decoding failed: the request raised, the status
\* is not 200, the payload is too short, or no filter opens the payload
FamilyFailed(resp) ==
    \/ resp.exc
    \/ resp.status_code # 200
    \/ resp.content.isnone
    \/ resp.content.len <= 100
    \/ \A g \in 1..Len(resp.content.ds) : ~resp.content.ds[g].open

\* what a family contributes to the record
Contribution(resp) ==
    IF FamilyFailed(resp) THEN EmptyDict ELSE ScanFilters(resp.content.ds, 1, EmptyDict)

\* C11: a failure of one family (exception, non-200, short payload, payload no
\* filter opens) adds no field of that family and changes nothing else: both
\* downloads are issued, the record holds exactly valid_time, fhour and the
\* fields decoded from the other family, and no exception leaves the call.
C11_PartialFetchTolerance ==
    /\ fsf.pc # "raised"
    /\ fsf.pc \in {"wave", "returned"} =>
          fsf.gets = {Get("atmos", fsf.cyc, fsf.fhour), Get("wave", fsf.cyc, fsf.fhour)}
    /\ fsf.pc = "returned" =>
          /\ FamilyFailed(fsf.atmos_resp) =>
                fsf.row = DictUpdate(BaseRow(fsf.cyc, fsf.fhour), Contribution(fsf.wave_resp))
          /\ FamilyFailed(fsf.wave_resp) =>
                fsf.row = DictUpdate(BaseRow(fsf.cyc, fsf.fhour), Contribution(fsf.atmos_resp))

\* the atmospheric request raised and the record still has the wave fields
C11_Witness ==
    /\ fsf.pc = "returned"
    /\ fsf.atmos_resp.exc
    /\ ~FamilyFailed(fsf.wave_resp)
    /\ "wave_height" \in DOMAIN fsf.row
    /\ "pressure" \notin DOMAIN fsf.row

\* C12 (as claimed): whenever parse_grib_data has returned, no scratch file
\* created by the call is left on disk.
C12_ScratchFileCleanup ==
    pgd.pc = "returned" => pgd.files = {}

\* no filter opens the payload of the call
Unopenable(b) == \A g \in 1..Len(b.ds) : ~b.ds[g].open

\* C13: parse_grib_data never raises, and for a missing payload, a payload
\* shorter than 100 bytes and a payload no filter opens it returns an empty
\* field set; a call whose loop ran to its end returns what the four filters
\* decode.
C13_DecoderNeverRaises ==
    /\ pgd.pc # "raised"
    /\ pgd.pc = "returned" =>
          /\ ~pgd.exc
          /\ (pgd.grib_bytes.isnone \/ pgd.grib_bytes.len < 100 \/ Unopenable(pgd.grib_bytes))
                => pgd.result = EmptyDict
          /\ pgd.g > Len(pgd.grib_bytes.ds) => pgd.result = parse_grib_data(pgd.grib_bytes)

\* a call on a payload that no filter opens has tried the four filters and
\* returned the empty field set
C13_Witness ==
    /\ pgd.pc = "returned"
    /\ pgd.grib_bytes = Garbage
    /\ pgd.g = 5
    /\ pgd.result = EmptyDict

\* the canonical field names as the claim lists them
C14_Names ==
    { "pressure", "gust", "wind_speed", "wind_dir", "wind_u", "wind_v",
      "wave_height", "wave_dir", "wave_period",
      "swell_height", "swell_dir", "swell_period" }

\* C14 (as claimed): every key of the field set parse_grib_data returns is a
\* canonical field name; a variable outside the alias table adds no key.
C14_CanonicalKeys ==
    pgd.pc = "returned" => DOMAIN pgd.result \subseteq C14_Names

\* C15: every download of a run, of both families and for every lead hour,
\* names the run date and run hour that discovery returned; every record,
\* before and after the decoded fields are merged into it, has the lead hour
\* of its request and a valid time equal to the nominal time of that cycle
\* (run date at run hour) plus the lead hour.
C15_SingleCycle ==
    /\ gets # {} => found # NotFound
    /\ found # NotFound => found.cycle_time = found.date_str * 1440 + found.cycle * 60
    /\ \A r \in gets : r.date_str = found.date_str /\ r.cycle = found.cycle
    /\ \A i \in Leads :
          futures[i].state \in {"atmos", "wave", "finished"} =>
              /\ futures[i].row["fhour"] = forecast_hours[i]
              /\ futures[i].row["valid_time"] =
                     found.date_str * 1440 + found.cycle * 60 + 60 * forecast_hours[i]
    /\ \A k \in 1..Len(all_data) :
          /\ \E i \in Leads : all_data[k]["fhour"] = forecast_hours[i]
          /\ all_data[k]["valid_time"] =
                 found.date_str * 1440 + found.cycle * 60 + 60 * all_data[k]["fhour"]

\* a finished run whose records all hold decoded fields of both families,
\* after a download of each family for each lead hour
C15_Witness ==
    /\ phase = "Done"
    /\ Len(all_data) = total
    /\ Cardinality(gets) = 2 * total
    /\ \A k \in 1..Len(all_data) :
          {"pressure", "wave_height"} \subseteq DOMAIN all_data[k]

\* C16: for every latitude in [-90, 90], longitude in [-180, 360] and margin
\* >= 0 the box returned by build_subregion_params contains the requested
\* point, also when the point lies on a grid line, and its four bounds are
\* whole multiples of a quarter of a degree.
C16_BoxContainsPoint ==
    sub.pc = "returned" =>
        /\ sub.out.bottomlat <= sub.lat /\ sub.lat <= sub.out.toplat
        /\ sub.out.leftlon <= sub.lon /\ sub.lon <= sub.out.rightlon
        /\ sub.out.bottomlat % 5 = 0 /\ sub.out.toplat % 5 = 0
        /\ sub.out.leftlon % 5 = 0 /\ sub.out.rightlon % 5 = 0

\* a point on a grid line in both coordinates, in the southern and western
\* hemisphere, with margin 0: the box is the point itself
C16_Witness ==
    /\ sub.pc = "returned"
    /\ sub.lat = -5 /\ sub.lon = Deg(-180) + 5 /\ sub.margin = 0
    /\ sub.out.bottomlat = sub.lat /\ sub.out.toplat = sub.lat
    /\ sub.out.leftlon = sub.lon /\ sub.out.rightlon = sub.lon

\* C17 (as claimed): a longitude in [-180, 0) and the same longitude plus 360
\* give the same leftlon and rightlon.
C17_LongitudeNormalized ==
    (sub.pc = "returned" /\ sub.lon >= Deg(-180) /\ sub.lon < 0) =>
        LET other == build_subregion_params(sub.lat, sub.lon + Deg(360), sub.margin)
        IN  sub.out.leftlon = other.leftlon /\ sub.out.rightlon = other.rightlon

\* a pipeline run is in progress
Active == phase \in {"Discovering", "Discovered", "Fetching"}

\* within one execution of the script a probe is issued only for a candidate
\* not visited before and is a request not made before, a download is a
\* request not made before, and a finished future is never run again
NoRetryStep ==
    runs' = runs =>
        /\ \A c \in Candidates :
              (status[c] = "unvisited" /\ status'[c] \in {"ok", "unavailable"}) =>
                  (CandHead(c) \notin heads /\ heads' = heads \cup {CandHead(c)})
        /\ heads' # heads =>
              \E c \in Candidates : status[c] = "unvisited" /\ status'[c] # "unvisited"
        /\ \A i \in Leads :
              /\ (futures[i].state = "pending" /\ futures'[i].state = "atmos") =>
                    (Get("atmos", found, forecast_hours[i]) \notin gets
                       /\ gets' = gets \cup {Get("atmos", found, forecast_hours[i])})
              /\ (futures[i].state = "atmos" /\ futures'[i].state = "wave") =>
                    (Get("wave", found, forecast_hours[i]) \notin gets
                       /\ gets' = gets \cup {Get("wave", found, forecast_hours[i])})
              /\ futures[i].state \in {"finished", "raised"} => futures'[i] = futures[i]
        /\ gets' # gets =>
              \E i \in Leads : futures'[i].state # futures[i].state
                                  /\ futures[i].state \in {"pending", "atmos"}

\* once a run has ended nothing is requested before the script is executed again
QuietAfterEnd ==
    (phase \in Terminal \cup {"Idle"} /\ runs' = runs) => UNCHANGED <<phase, heads, gets>>

\* C18 (as claimed): a pipeline run is in progress only if the fetch button
\* was pressed for it; after Failed or Done nothing is requested until then;
\* within a run no probe or download is retried.
C18_NoAutomaticRerun ==
    /\ [](Active => fetch_btn)
    /\ [][QuietAfterEnd]_vars
    /\ [][NoRetryStep]_vars

\* record k of the series has both wind components
HasComponents(k) == {"wind_u", "wind_v"} \subseteq DOMAIN drv.all_data[k]

\* C19 (as claimed): a record with both wind components gets the speed
\* computed from them; the scalar wind_speed is used only for a record
\* without both components; a record with components and no scalar always
\* gets a wind speed, whatever the other records hold.
C19_WindSpeedSource ==
    drv.pc = "derived" =>
        \A k \in 1..Len(drv.all_data) :
            LET row == drv.all_data[k]
            IN  /\ HasComponents(k) =>
                      drv.df[k].wind_speed_kts =
                          Knots(Magnitude(Cell(row["wind_u"]), Cell(row["wind_v"])))
                /\ (~HasComponents(k) /\ "wind_speed" \in DOMAIN row) =>
                      drv.df[k].wind_speed_kts = Knots(Cell(row["wind_speed"]))
                /\ (HasComponents(k) /\ "wind_speed" \notin DOMAIN row) =>
                      ~drv.df[k].wind_speed_kts.nan

\* the decoded inputs of each display column
C20_Inputs ==
    [ pressure_hpa |-> "pressure", gust_kts |-> "gust", waves_m |-> "wave_height",
      max_waves_m |-> "wave_height", wave_deg |-> "wave_dir",
      wave_period_s |-> "wave_period", swell_m |-> "swell_height",
      swell_deg |-> "swell_dir", swell_period_s |-> "swell_period" ]

\* C20: for every record, a display value whose decoded input is absent from
\* the record (never decoded, or decoded as not-a-number) is absent (NaN, or
\* '-' for a direction text), never zero; for wind speed and wind direction
\* the input is absent when the record has neither the scalar field nor both
\* components.
C20_AbsentStaysAbsent ==
    drv.pc = "derived" =>
        \A k \in 1..Len(drv.all_data) :
            LET row == drv.all_data[k]
                d   == drv.df[k]
            IN  /\ \A c \in DOMAIN C20_Inputs :
                      C20_Inputs[c] \notin DOMAIN row => d[c] = NaNCell
                /\ "wave_dir" \notin DOMAIN row => d.wave_direction.dash
                /\ "swell_dir" \notin DOMAIN row => d.swell_direction.dash
                /\ ("wind_speed" \notin DOMAIN row /\ ~HasComponents(k)) =>
                      d.wind_speed_kts = NaNCell
                /\ ("wind_dir" \notin DOMAIN row /\ ~HasComponents(k)) =>
                      (d.wind_deg = NaNCell /\ d.wind_direction.dash)

\* two records: the first has pressure and no wave period (decoded as
\* not-a-number), the second has a wave period and no pressure; each column
\* exists in the frame and is absent exactly where its input is
C20_Witness ==
    /\ drv.pc = "derived"
    /\ Len(drv.all_data) = 2
    /\ "pressure" \in DOMAIN drv.all_data[1] /\ "pressure" \notin DOMAIN drv.all_data[2]
    /\ "wave_height" \in DOMAIN drv.all_data[1]
    /\ "wave_period" \notin DOMAIN drv.all_data[1] /\ "wave_period" \in DOMAIN drv.all_data[2]
    /\ drv.df[1].pressure_hpa = Cell(10132) /\ drv.df[2].pressure_hpa = NaNCell
    /\ drv.df[1].wave_period_s = NaNCell /\ drv.df[2].wave_period_s = Cell(90)

\* ---------------------------------------------------------------------- C21
\* the places <<g, k>> (filter g, variable k of its dataset) of a payload whose
\* variable maps to the canonical field key and converts to a number
Occurrences(b, key) ==
    UNION { { <<g, k>> : k \in { j \in 1..Len(b.ds[g].data_vars) :
                            /\ Lower(b.ds[g].data_vars[j].name) \in DOMAIN var_mapping
                            /\ var_mapping[Lower(b.ds[g].data_vars[j].name)] = key
                            /\ b.ds[g].data_vars[j].val.kind = "num" } } :
            g \in { h \in 1..Len(b.ds) :
                      b.ds[h].open /\ b.ds[h].coords /\ b.ds[h].sel } }

\* the earliest of them in the order of the filters and, under one filter, of
\* the variables of the dataset
FirstOccurrence(b, key) ==
    CHOOSE p \in Occurrences(b, key) :
        \A q \in Occurrences(b, key) :
            p[1] < q[1] \/ (p[1] = q[1] /\ p[2] <= q[2])

ValueAt(b, p) == b.ds[p[1]].data_vars[p[2]].val.v

\* a step of the call leaves every canonical field that is set as it is
FieldsKeptStep ==
    (pgd.pc # "idle" /\ pgd'.pc # "idle") =>
        \A key \in CanonicalFields \cap DOMAIN pgd.result :
            key \in DOMAIN pgd'.result /\ pgd'.result[key] = pgd.result[key]

\* C21: First-wins decoding. With the filters tried in the order surface,
\* meanSea, orderedSequence, unfiltered, every canonical field of the result
\* holds the value of the first matching variable, in that order, that
\* converts to a number; when the loop over the filters has run to its end
\* every field that has such a variable is set; and once a field is set no
\* later variable or filter changes it.
C21_FirstWins ==
    /\ [](pgd.pc # "idle" =>
            /\ \A key \in CanonicalFields \cap DOMAIN pgd.result :
                  /\ Occurrences(pgd.grib_bytes, key) # {}
                  /\ pgd.result[key] =
                        ValueAt(pgd.grib_bytes, FirstOccurrence(pgd.grib_bytes, key))
            /\ (pgd.pc = "finally" /\ ~pgd.exc) =>
                  \A key \in CanonicalFields :
                      Occurrences(pgd.grib_bytes, key) # {} => key \in DOMAIN pgd.result)
    /\ [][FieldsKeptStep]_vars

\* the call has returned a field for which a later variable held another number
C21_Witness ==
    /\ pgd.pc = "returned"
    /\ \E key \in CanonicalFields \cap DOMAIN pgd.result :
         \E q \in Occurrences(pgd.grib_bytes, key) :
            /\ q # FirstOccurrence(pgd.grib_bytes, key)
            /\ ValueAt(pgd.grib_bytes, q) # pgd.result[key]

\* ---------------------------------------------------------------------- C22
\* a step of the fetch starts a call only for a future that is still queued,
\* and a call that was started is never queued again
StartedOnceStep ==
    (phase = "Fetching" /\ phase' = "Fetching") =>
        \A i \in Leads :
            /\ (futures[i].state # "pending") => (futures'[i].state # "pending")
            /\ (futures'[i].state = "atmos" /\ futures[i].state # "atmos")
                   => futures[i].state = "pending"
            /\ (futures[i].state = "pending" /\ futures'[i].state # "pending")
                   => /\ futures'[i].state = "atmos"
                      /\ futures'[i].row["fhour"] = forecast_hours[i]

\* C22: Bounded fan-out. fetch_all_forecasts_parallel holds one future per
\* lead hour of the list, the lead hours are pairwise different, each future's
\* call of fetch_single_forecast is started once and all of them have been
\* started and have ended when the function returns; in every state at most
\* PoolSize (max_workers) of the calls are executing.
C22_BoundedFanOut ==
    /\ [](/\ DOMAIN futures = 1..Len(forecast_hours)
          /\ \A i, j \in Leads : forecast_hours[i] = forecast_hours[j] => i = j
          /\ \A i \in Leads : forecast_hours[i] = 3 * (i - 1)
          /\ Cardinality(Running) <= PoolSize
          /\ phase \in {"Done", "Error"} =>
                \A i \in Leads : futures[i].state \in {"finished", "raised"})
    /\ [][StartedOnceStep]_vars

\* the pool is full: as many calls are executing as it has threads
C22_Witness ==
    /\ phase = "Fetching"
    /\ Cardinality(Running) = PoolSize
    /\ \A i \in Running : \A j \in Leads : j < i => futures[j].state # "pending"

\* ---------------------------------------------------------------------- C23
\* the calls of fetch_single_forecast that have ended, with a row or an exception
Ended == {i \in Leads : futures[i].state \in {"finished", "raised"}}

\* within one call of fetch_all_forecasts_parallel the counter never goes
\* down, and it goes up by one exactly when one more ended future is yielded
CounterStep ==
    (phase = "Fetching" /\ phase' \in {"Fetching", "Done", "Error"}) =>
        /\ completed' >= completed
        /\ completed' # completed =>
              /\ completed' = completed + 1
              /\ \E i \in Ended \ Collected : Collected' = Collected \cup {i}
        /\ Collected' # Collected => completed' = completed + 1

\* C23: Progress counter without lost updates. Under every interleaving of
\* worker completions, completed counts each ended fetch once, whether it gave
\* a record, an empty row or an exception; it only increases, never exceeds
\* the number of lead hours, and equals that number when the function returns.
C23_ProgressCounter ==
    /\ [](/\ completed = Cardinality(Collected)
          /\ Collected \subseteq Ended
          /\ completed <= total
          /\ phase \in {"Done", "Error"} => completed = total)
    /\ [][CounterStep]_vars

\* the function has returned after a fetch that raised, one that gave an empty
\* row and one that gave a record, yielded in another order than submitted
C23_Witness ==
    /\ phase = "Done"
    /\ completed = total
    /\ \E i, j, k \in Leads :
         /\ futures[i].state = "raised"
         /\ futures[j].state = "finished" /\ ~HasData(futures[j].row)
         /\ futures[k].state = "finished" /\ HasData(futures[k].row)
         /\ yielded[1] # 1

\* ---------------------------------------------------------------------- C24
\* The second call has returned at now_utc, later than the first call, which
\* skipped the cycle with run time T as too young; the cycle is at least 4 hours
\* old, the server has its file, and it has the file of no newer candidate of
\* the second call that is old enough to be probed.
ReprobeCase(T) ==
    /\ Returned
    /\ rep.t < now_utc
    /\ T + 4 * 60 <= now_utc
    /\ T \in rep.published
    /\ \A c \in Candidates :
          (CandEligible(c) /\ CandTime(c) > T) => CandTime(c) \notin rep.published

\* C24 (as claimed): Monotonic availability. A cycle skipped as too young at
\* time t is returned by a call at any later time at which it is at least 4
\* hours old, its data is published and no newer eligible candidate is
\* available.
C24_MonotonicAvailability ==
    rep.pc = "second" =>
        \A T \in rep.young :
            ReprobeCase(T) => (found # NotFound /\ found.cycle_time = T)

\* C24 (amended): the same, for a later time that falls on the UTC date of the
\* cycle or on the following one, the two dates whose cycles a call tries.
C24_AcceptedWithinWindow ==
    rep.pc = "second" =>
        \A T \in rep.young :
            (ReprobeCase(T) /\ now_utc \div 1440 <= T \div 1440 + 1) =>
                /\ found # NotFound
                /\ found.cycle_time = T
                /\ found.cycle * 60 = T % 1440
                /\ found.date_str = T \div 1440

\* the second call, on the day after, has returned a cycle the first call
\* skipped as too young, after the probe of a newer candidate failed
C24_Witness ==
    /\ rep.pc = "second"
    /\ Returned
    /\ found # NotFound
    /\ found.cycle_time \in rep.young
    /\ now_utc \div 1440 = found.date_str + 1
    /\ \E c \in Candidates : CandTime(c) > found.cycle_time /\ status[c] = "unavailable"
====
